---- MODULE Spec2Model ----
(***************************************************************************)
(* git-credential-relay (src/main.py): the serve loop of main(), the wire  *)
(* codec read_kv / write_close_kv, the peer resolver, the trust gate       *)
(* confirm_get and the two credential delegates.                           *)
(*                                                                         *)
(* Bytes and characters are one-character strings; a byte string or a text *)
(* string is a sequence of them.  A Python dict is a sequence of <<k, v>>  *)
(* pairs with unique keys, in insertion order.                             *)
(***************************************************************************)
EXTENDS Integers, Sequences, FiniteSets, TLC

\* ------------------------------------------------------------------ bounds
MaxConns == 3       \* connections the peers make in one run
MaxLines == 1       \* lines a peer sends besides its op line
MaxCodecLines == 2  \* lines of a stream given to the codec alone
MaxAnsLen == 4      \* characters of an answer given to the trust gate alone
MaxRespLen == 5     \* bytes of an op value or of a fill output behind a Response

\* srv.listen(16)
Backlog == 16

\* ------------------------------------------------------------ byte strings
NL == "\n"
CR == "\r"
EQ == "="
BAD == "xFF"        \* a byte that is not valid UTF-8
REPL == "uFFFD"     \* the character U+FFFD
REPL_UTF8 == <<"xEF", "xBF", "xBD">>   \* the UTF-8 encoding of U+FFFD

s_op == <<"o", "p">>
s_get == <<"g", "e", "t">>
s_GET == <<"G", "E", "T">>
s_store == <<"s", "t", "o", "r", "e">>
s_erase == <<"e", "r", "a", "s", "e">>
s_error == <<"e", "r", "r", "o", "r">>
s_host == <<"h", "o", "s", "t">>
s_user == <<"u", "s", "e", "r">>
s_pass == <<"p", "a", "s", "s">>
s_erase_disabled == s_erase \o <<" ", "d", "i", "s", "a", "b", "l", "e", "d">>
s_user_denied == <<"u", "s", "e", "r", " ", "d", "e", "n", "i", "e", "d">>
s_unknown_op == <<"u", "n", "k", "n", "o", "w", "n", " ">> \o s_op \o <<":", " ">>
s_internal_server_error ==
    <<"i", "n", "t", "e", "r", "n", "a", "l", " ", "s", "e", "r", "v", "e", "r", " ">> \o s_error

RECURSIVE Flatten(_)
Flatten(ss) == IF ss = <<>> THEN <<>> ELSE Head(ss) \o Flatten(Tail(ss))

\* bytes.decode('utf-8', 'replace') on strings of ASCII bytes, BAD bytes and
\* encoded U+FFFD: an invalid byte becomes U+FFFD
RECURSIVE decode(_)
decode(b) ==
    IF b = <<>> THEN <<>>
    ELSE IF Len(b) >= 3 /\ SubSeq(b, 1, 3) = REPL_UTF8
         THEN <<REPL>> \o decode(SubSeq(b, 4, Len(b)))
    ELSE IF Head(b) \in {BAD, "xEF", "xBF", "xBD"}
         THEN <<REPL>> \o decode(Tail(b))
    ELSE <<Head(b)>> \o decode(Tail(b))

\* str.encode(): UTF-8
RECURSIVE encode(_)
encode(s) ==
    IF s = <<>> THEN <<>>
    ELSE (IF Head(s) = REPL THEN REPL_UTF8 ELSE <<Head(s)>>) \o encode(Tail(s))

\* rstrip('\r\n') in place of rstrip('\n')
RECURSIVE rstrip_nl_and_cr(_)
rstrip_nl_and_cr(s) ==
    IF s # <<>> /\ s[Len(s)] \in {NL, CR}
    THEN rstrip_nl_and_cr(SubSeq(s, 1, Len(s) - 1)) ELSE s

\* str.rstrip('\n')
RECURSIVE rstrip_nl(_)
rstrip_nl(s) ==
    IF s # <<>> /\ s[Len(s)] = NL THEN rstrip_nl(SubSeq(s, 1, Len(s) - 1)) ELSE s

\* index of the first occurrence of c in s, 0 when absent
RECURSIVE IndexFrom(_, _, _)
IndexFrom(s, c, i) ==
    IF i > Len(s) THEN 0 ELSE IF s[i] = c THEN i ELSE IndexFrom(s, c, i + 1)
Index(s, c) == IndexFrom(s, c, 1)

\* str.partition('='): <<head, tail>>, the separator dropped
partition(s) ==
    LET i == Index(s, EQ)
    IN  IF i = 0 THEN <<s, <<>>>>
        ELSE <<SubSeq(s, 1, i - 1), SubSeq(s, i + 1, Len(s))>>

\* ------------------------------------------------------------------- dicts
RECURSIVE KeyIndexFrom(_, _, _)
KeyIndexFrom(d, k, i) ==
    IF i > Len(d) THEN 0 ELSE IF d[i][1] = k THEN i ELSE KeyIndexFrom(d, k, i + 1)
KeyIndex(d, k) == KeyIndexFrom(d, k, 1)

Keys(d) == {d[i][1] : i \in 1..Len(d)}

\* d[k] = v: an existing key keeps its position
DictSet(d, k, v) ==
    LET i == KeyIndex(d, k)
    IN  IF i = 0 THEN Append(d, <<k, v>>) ELSE [d EXCEPT ![i] = <<k, v>>]

\* d.get(k, default)
DictGet(d, k, default) ==
    LET i == KeyIndex(d, k) IN IF i = 0 THEN default ELSE d[i][2]

\* d without key k
DictDel(d, k) ==
    LET i == KeyIndex(d, k)
    IN  IF i = 0 THEN d ELSE SubSeq(d, 1, i - 1) \o SubSeq(d, i + 1, Len(d))

\* ------------------------------------------------------------------- codec
\* RawIOBase.readline(): up to and including the first newline, or to EOF
readline(buf) ==
    LET i == Index(buf, NL) IN IF i = 0 THEN buf ELSE SubSeq(buf, 1, i)

\* read_kv's loop from a stream holding buf (then EOF), with kv read so far:
\* the mapping and the bytes left unread
RECURSIVE read_kv_loop(_, _)
read_kv_loop(buf, kv) ==
    LET line == readline(buf)
        rest == SubSeq(buf, Len(line) + 1, Len(buf))
        s == rstrip_nl(decode(line))
        p == partition(s)
    IN  IF line = <<>> THEN [kv |-> kv, rest |-> rest]
        ELSE IF s = <<>> THEN [kv |-> kv, rest |-> rest]
        ELSE read_kv_loop(rest, DictSet(kv, p[1], p[2]))

\* read_kv going on to the next block after the blank line
read_kv_next_block(buf) ==
    LET first == read_kv_loop(buf, <<>>) IN read_kv_loop(first.rest, first.kv)

read_kv(buf) == read_kv_loop(buf, <<>>)

\* write_close_kv writing the keys without their values
write_close_kv_drops_value(kv) ==
    [i \in 1..Len(kv) |-> encode(kv[i][1] \o <<EQ, NL>>)] \o << <<NL>> >>

\* write_close_kv without the terminating blank line
write_close_kv_no_terminator(kv) ==
    [i \in 1..Len(kv) |-> encode(kv[i][1] \o <<EQ>> \o kv[i][2] \o <<NL>>)]

\* write_close_kv with the terminator written inside the loop
write_close_kv_terminates_each(kv) ==
    Flatten([i \in 1..Len(kv) |->
                <<encode(kv[i][1] \o <<EQ>> \o kv[i][2] \o <<NL>>), <<NL>>>>])

\* the stream.write() calls of write_close_kv, in order
write_close_kv(kv) ==
    [i \in 1..Len(kv) |-> encode(kv[i][1] \o <<EQ>> \o kv[i][2] \o <<NL>>)]
        \o << <<NL>> >>

\* --------------------------------------------------------------- delegates
\* '\n'.join(f'{k}={v}' ...) + '\n\n', encoded: the input of the external command
RECURSIVE join_kv(_)
join_kv(req) ==
    IF req = <<>> THEN <<>>
    ELSE req[1][1] \o <<EQ>> \o req[1][2]
         \o (IF Len(req) > 1 THEN <<NL>> ELSE <<>>) \o join_kv(Tail(req))

delegate_input(req) == encode(join_kv(req) \o <<NL, NL>>)

\* bytes.splitlines(): split at \n, \r and \r\n, no empty last line
RECURSIVE FirstBreak(_, _)
FirstBreak(b, i) ==
    IF i > Len(b) THEN 0 ELSE IF b[i] \in {NL, CR} THEN i ELSE FirstBreak(b, i + 1)

RECURSIVE splitlines(_)
splitlines(b) ==
    LET i == FirstBreak(b, 1)
        j == IF i > 0 /\ b[i] = CR /\ i < Len(b) /\ b[i + 1] = NL THEN i + 1 ELSE i
    IN  IF b = <<>> THEN <<>>
        ELSE IF i = 0 THEN <<b>>
        ELSE <<SubSeq(b, 1, i - 1)>> \o splitlines(SubSeq(b, j + 1, Len(b)))

\* the parse without its `if k:` test
RECURSIVE parse_fill_no_key_test(_, _)
parse_fill_no_key_test(lines, resp) ==
    IF lines = <<>> THEN resp
    ELSE LET p == partition(decode(Head(lines)))
         IN  parse_fill_no_key_test(Tail(lines), DictSet(resp, p[1], p[2]))

\* git_credential_fill's parse of the command's stdout
RECURSIVE parse_fill(_, _)
parse_fill(lines, resp) ==
    IF lines = <<>> THEN resp
    ELSE LET p == partition(decode(Head(lines)))
         IN  parse_fill(Tail(lines),
                        IF p[1] # <<>> THEN DictSet(resp, p[1], p[2]) ELSE resp)

git_credential_fill(stdout) == parse_fill(splitlines(stdout), <<>>)

\* -------------------------------------------------------------- trust gate
Whitespace == {" ", "\t", NL, CR}

RECURSIVE lstrip(_)
lstrip(s) == IF s # <<>> /\ Head(s) \in Whitespace THEN lstrip(Tail(s)) ELSE s

RECURSIVE rstrip(_)
rstrip(s) ==
    IF s # <<>> /\ s[Len(s)] \in Whitespace THEN rstrip(SubSeq(s, 1, Len(s) - 1)) ELSE s

strip(s) == rstrip(lstrip(s))

lower_char(c) ==
    CASE c = "Y" -> "y" [] c = "E" -> "e" [] c = "S" -> "s"
      [] c = "N" -> "n" [] c = "O" -> "o" [] c = "G" -> "g" [] c = "T" -> "t"
      [] OTHER -> c

lower(s) == [i \in 1..Len(s) |-> lower_char(s[i])]

\* the answer compared as typed, without .lower()
confirm_get_as_typed(ans) == strip(ans) \in {<<"y">>, <<"y", "e", "s">>}

\* confirm_get's return value for the operator's answer
confirm_get(ans) == lower(strip(ans)) \in {<<"y">>, <<"y", "e", "s">>}

\* ------------------------------------------------------------------ inputs
\* the lines a peer sends, without their newline: the op line, and the others
OpLines ==
    { s_op \o <<EQ>> \o s_get, s_op \o <<EQ>> \o s_erase, s_op \o <<EQ>> \o s_store,
      s_op \o <<EQ>> \o s_GET, s_op \o <<EQ>> }

OtherLines == { s_host \o <<EQ, "a", EQ, BAD>>, s_user }

RECURSIVE SeqsUpTo(_, _)
SeqsUpTo(S, n) ==
    IF n = 0 THEN {<<>>}
    ELSE LET shorter == SeqsUpTo(S, n - 1)
         IN  shorter \cup {Append(q, x) : q \in {r \in shorter : Len(r) = n - 1}, x \in S}

WithNL(lines) == Flatten([i \in 1..Len(lines) |-> lines[i] \o <<NL>>])

\* the blocks of lines a peer sends: up to MaxLines lines, with no op line or
\* with one before or after them
PeerBlocks ==
    LET others == SeqsUpTo(OtherLines, MaxLines)
    IN  {WithNL(ls) : ls \in others}
          \cup {WithNL(<<o>> \o ls) : o \in OpLines, ls \in others}
          \cup {WithNL(ls \o <<o>>) : o \in OpLines, ls \in others}

\* what a peer sends before it shuts down its sending side: a block, then a
\* blank line, or a blank line and a second block, or nothing, or the last
\* line left without its newline
PeerStreams ==
    {b \o <<NL>> : b \in PeerBlocks}
      \cup {b \o <<NL>> \o s_op \o <<EQ>> \o s_get \o <<NL, NL>> : b \in PeerBlocks}
      \cup PeerBlocks
      \cup {SubSeq(b, 1, Len(b) - 1) : b \in PeerBlocks \ {<<>>}}

\* what the operator types at the prompt
Answers ==
    { <<>>, <<"y">>, <<"Y">>, <<"y", "e", "s">>, <<" ", "Y", "E", "S", "\t">>,
      <<"n">>, <<"n", "o">>, <<"y", "e">> }

\* the completed fill command: its stdout and exit status
FillStdouts ==
    { <<>>,
      s_user \o <<EQ, "a", NL>> \o s_pass \o <<EQ, "b", EQ, "c", NL>>,
      <<EQ, "x", NL>> \o s_user \o <<EQ, "a">>,
      s_user \o <<EQ, "a", CR, NL>> \o s_user \o <<EQ, BAD, CR, NL>>,
      <<"j", NL, NL>> }

ExitStatuses == {0, 128}

Platforms == {"darwin", "linux", "win32"}

\* ------------------------------------------------------------------- state
VARIABLES
    pc,         \* where main is: "accept", "peer", "read", "confirm", "fill",
                \* "approve", "write", "except", or "terminated"
    nconn,      \* connections made to the socket so far, numbered 1..nconn
    backlog,    \* the listen queue: connections made and not yet accepted
    acceptLog,  \* the connections srv.accept() returned, in order
    closeLog,   \* the connections closed by `with conn`, in order
    conn,       \* the connection accepted last, 0 before the first
    peer,       \* get_peer_info's display string
    sent,       \* the bytes the peer sent on conn
    inbuf,      \* those of them the server has not read
    decoded,    \* read_kv's result
    req,        \* the request after req.pop('op', 'get')
    op,         \* the popped op
    gate,       \* confirm_get calls made while serving conn
    calls,      \* subprocess.run calls made while serving conn
    resp,       \* the mapping the try body hands to write_close_kv
    writes,     \* the mappings write_close_kv was called with on conn
    wire,       \* the bytes written to conn
    exc,        \* the call that raised while serving conn, "none" if none
    nread,      \* read_kv calls made on conn
    broken      \* a write to conn has raised: the peer has closed its end

vars == <<pc, nconn, backlog, acceptLog, closeLog, conn, peer, sent, inbuf,
          decoded, req, op, gate, calls, resp, writes, wire, exc, nread, broken>>

queueVars == <<nconn, backlog>>
logVars == <<acceptLog, closeLog>>
reqVars == <<peer, sent, inbuf, decoded, req, op, nread>>

Init ==
    /\ pc = "accept"
    /\ nconn = 0
    /\ backlog = <<>>
    /\ acceptLog = <<>>
    /\ closeLog = <<>>
    /\ conn = 0
    /\ peer = "?"
    /\ sent = <<>>
    /\ inbuf = <<>>
    /\ decoded = <<>>
    /\ req = <<>>
    /\ op = <<>>
    /\ gate = <<>>
    /\ calls = <<>>
    /\ resp = <<>>
    /\ writes = <<>>
    /\ wire = <<>>
    /\ exc = "none"
    /\ nread = 0
    /\ broken = FALSE

\* --------------------------------------------------------------------- main
\* get_peer_pid: the PID, or 0 for None, given sys.platform and whether
\* getsockopt raises OSError
get_peer_pid(platform, sockopt) ==
    IF platform \in {"darwin", "linux"} /\ sockopt = "ok" THEN 7 ELSE 0

\* get_peer_info's string, given the PID and psutil's answer
get_peer_info(pid, lookup) ==
    IF pid = 0 THEN "?"
    ELSE IF lookup = "NoSuchProcess" THEN "? (pid 7)" ELSE "git (pid 7)"

\* req.pop('op', '') in place of req.pop('op', 'get')
pop_op_no_default(r) == DictGet(r, s_op, <<>>)

\* req.pop('op', 'get'): the value returned and the mapping left
pop_op(r) == DictGet(r, s_op, s_get)

\* req.get in place of req.pop: op stays in the mapping
pop_req_keeps_op(r) == r

pop_req(r) == DictDel(r, s_op)

\* the erase test missing: erase falls through to store
dispatch_erase_stores(o) ==
    CASE o = s_get -> "get"
      [] o \in {s_store, s_erase} -> "store"
      [] OTHER -> "unknown"

\* the op compared case-insensitively
dispatch_ignores_case(o) ==
    CASE lower(o) = s_erase -> "erase"
      [] lower(o) = s_get -> "get"
      [] lower(o) = s_store -> "store"
      [] OTHER -> "unknown"

\* the chain of `if op == ...` tests
dispatch(o) ==
    CASE o = s_erase -> "erase"
      [] o = s_get -> "get"
      [] o = s_store -> "store"
      [] OTHER -> "unknown"

\* the test of confirm_get's result inverted
get_branch_inverted(ok) == IF ok THEN "denied" ELSE "fill"

\* the result of confirm_get ignored
get_branch_always_fills(ok) == "fill"

\* `if not confirm_get(req, peer)`
get_branch(ok) == IF ~ok THEN "denied" ELSE "fill"

ErrorResponse(msg) == << <<s_error, msg>> >>

\* the connection left open at the end of the iteration
with_conn_exit_leaves_open(log, c) == log

\* leaving `with conn:` closes the connection
with_conn_exit(log, c) == Append(log, c)

Closed(c) == \E i \in 1..Len(closeLog) : closeLog[i] = c

\* a peer connects to the socket and waits in the listen queue
Connect ==
    /\ pc # "terminated"
    /\ nconn < MaxConns
    /\ Len(backlog) < Backlog
    /\ nconn' = nconn + 1
    /\ backlog' = Append(backlog, nconn + 1)
    /\ UNCHANGED <<pc, logVars, conn, reqVars, gate, calls, resp, writes, wire, exc,
                   broken>>

\* conn, _ = srv.accept(); f = conn.makefile(...)
Accept ==
    /\ pc = "accept"
    /\ backlog # <<>>
    /\ conn' = Head(backlog)
    /\ backlog' = Tail(backlog)
    /\ acceptLog' = Append(acceptLog, Head(backlog))
    /\ peer' = "?" /\ sent' = <<>> /\ inbuf' = <<>> /\ decoded' = <<>>
    /\ req' = <<>> /\ op' = <<>> /\ gate' = <<>> /\ calls' = <<>>
    /\ resp' = <<>> /\ writes' = <<>> /\ wire' = <<>> /\ exc' = "none"
    /\ nread' = 0 /\ broken' = FALSE
    /\ pc' = "peer"
    /\ UNCHANGED <<nconn, closeLog>>

\* peer = get_peer_info(conn); a psutil error other than NoSuchProcess
\* is not caught there
GetPeerInfo ==
    /\ pc = "peer"
    /\ \E platform \in Platforms, sockopt \in {"ok", "OSError"},
          lookup \in {"ok", "NoSuchProcess", "AccessDenied"} :
          LET pid == get_peer_pid(platform, sockopt)
          IN  IF pid # 0 /\ lookup = "AccessDenied"
              THEN /\ exc' = "get_peer_info"
                   /\ pc' = "except"
                   /\ UNCHANGED peer
              ELSE /\ peer' = get_peer_info(pid, lookup)
                   /\ pc' = "read"
                   /\ UNCHANGED exc
    /\ UNCHANGED <<queueVars, logVars, conn, sent, inbuf, decoded, req, op, nread,
                   gate, calls, resp, writes, wire, broken>>

\* req = read_kv(f); op = req.pop('op', 'get'); the op tests up to the first
\* blocking call
ReadKv ==
    /\ pc = "read"
    /\ \E data \in PeerStreams :
          LET r == read_kv(data)
              o == pop_op(r.kv)
          IN  /\ sent' = data
              /\ nread' = nread + 1
              /\ inbuf' = r.rest
              /\ decoded' = r.kv
              /\ op' = o
              /\ req' = pop_req(r.kv)
              /\ CASE dispatch(o) = "erase" ->
                        resp' = ErrorResponse(s_erase_disabled) /\ pc' = "write"
                   [] dispatch(o) = "get" ->
                        resp' = resp /\ pc' = "confirm"
                   [] dispatch(o) = "store" ->
                        resp' = resp /\ pc' = "approve"
                   [] OTHER ->
                        resp' = ErrorResponse(s_unknown_op \o o) /\ pc' = "write"
    /\ UNCHANGED <<queueVars, logVars, conn, peer, gate, calls, writes, wire, exc,
                   broken>>

\* confirm_get(req, peer): the operator answers the prompt
ConfirmGet ==
    /\ pc = "confirm"
    /\ \E ans \in Answers :
          LET ok == confirm_get(ans)
          IN  /\ gate' = Append(gate, [req |-> req, peer |-> peer,
                                       result |-> IF ok THEN "approve" ELSE "deny"])
              /\ IF get_branch(ok) = "denied"
                 THEN resp' = ErrorResponse(s_user_denied) /\ pc' = "write"
                 ELSE resp' = resp /\ pc' = "fill"
    /\ UNCHANGED <<queueVars, logVars, conn, reqVars, calls, writes, wire, exc,
                   broken>>

\* input() raises EOFError: the terminal is at end of file
ConfirmGetRaises ==
    /\ pc = "confirm"
    /\ gate' = Append(gate, [req |-> req, peer |-> peer, result |-> "raise"])
    /\ exc' = "confirm_get"
    /\ pc' = "except"
    /\ UNCHANGED <<queueVars, logVars, conn, reqVars, calls, resp, writes, wire,
                   broken>>

\* git_credential_fill(req): the command runs to completion
GitCredentialFill ==
    /\ pc = "fill"
    /\ \E out \in FillStdouts, status \in ExitStatuses :
          /\ calls' = Append(calls, [cmd |-> "fill", req |-> req,
                                     input |-> delegate_input(req),
                                     stdout |-> out, returncode |-> status,
                                     ret |-> git_credential_fill(out)])
          /\ resp' = git_credential_fill(out)
    /\ pc' = "write"
    /\ UNCHANGED <<queueVars, logVars, conn, reqVars, gate, writes, wire, exc,
                   broken>>

\* git_credential_approve(req): the command runs to completion, its output
\* sent to DEVNULL
GitCredentialApprove ==
    /\ pc = "approve"
    /\ \E status \in ExitStatuses :
          calls' = Append(calls, [cmd |-> "approve", req |-> req,
                                  input |-> delegate_input(req),
                                  stdout |-> <<>>, returncode |-> status,
                                  ret |-> <<>>])
    /\ resp' = <<>>
    /\ pc' = "write"
    /\ UNCHANGED <<queueVars, logVars, conn, reqVars, gate, writes, wire, exc,
                   broken>>

\* subprocess.run raises OSError: the command cannot be started
DelegateRaises ==
    /\ pc \in {"fill", "approve"}
    /\ calls' = Append(calls, [cmd |-> pc, req |-> req,
                               input |-> delegate_input(req),
                               stdout |-> <<>>, returncode |-> -1, ret |-> <<>>])
    /\ exc' = IF pc = "fill" THEN "git_credential_fill" ELSE "git_credential_approve"
    /\ pc' = "except"
    /\ UNCHANGED <<queueVars, logVars, conn, reqVars, gate, resp, writes, wire,
                   broken>>

\* write_close_kv(f, resp) in the try body.  The first n writes reach the
\* peer; a peer that has closed its end makes the next one raise
\* BrokenPipeError.  When all succeed, `continue` leaves `with conn`.
WriteResponse ==
    /\ pc = "write"
    /\ LET w == write_close_kv(resp)
       IN  \E n \in 0..Len(w) :
              /\ wire' = wire \o Flatten(SubSeq(w, 1, n))
              /\ IF n = Len(w)
                 THEN /\ closeLog' = with_conn_exit(closeLog, conn)
                      /\ pc' = "accept"
                      /\ UNCHANGED <<exc, broken>>
                 ELSE /\ exc' = "write_close_kv"
                      /\ broken' = TRUE
                      /\ pc' = "except"
                      /\ UNCHANGED closeLog
    /\ writes' = Append(writes, resp)
    /\ UNCHANGED <<queueVars, acceptLog, conn, reqVars, gate, calls, resp>>

\* except Exception: write_close_kv(f, {'error': 'internal server error'}).
\* A peer that has closed its end stays closed, so after a failed write this
\* one fails at once.  An exception raised here leaves `with conn` and main.
Except ==
    /\ pc = "except"
    /\ LET kv == ErrorResponse(s_internal_server_error)
           w == write_close_kv(kv)
       IN  /\ writes' = Append(writes, kv)
           /\ \E n \in 0..Len(w) :
                 /\ broken => n = 0
                 /\ wire' = wire \o Flatten(SubSeq(w, 1, n))
                 /\ broken' = (n < Len(w))
                 /\ pc' = IF n = Len(w) THEN "accept" ELSE "terminated"
    /\ closeLog' = with_conn_exit(closeLog, conn)
    /\ UNCHANGED <<queueVars, acceptLog, conn, reqVars, gate, calls, resp, exc>>

Next ==
    \/ Connect
    \/ Accept
    \/ GetPeerInfo
    \/ ReadKv
    \/ ConfirmGet
    \/ ConfirmGetRaises
    \/ GitCredentialFill
    \/ GitCredentialApprove
    \/ DelegateRaises
    \/ WriteResponse
    \/ Except

Spec == Init /\ [][Next]_vars

\* the server always takes its next step: accept returns when a connection
\* is waiting, the peer sends its blank line or closes its sending side, the
\* operator answers, the credential command returns, a write returns or raises
LiveSpec ==
    /\ Spec
    /\ WF_vars(Accept)
    /\ WF_vars(GetPeerInfo)
    /\ WF_vars(ReadKv)
    /\ WF_vars(ConfirmGet \/ ConfirmGetRaises)
    /\ WF_vars(GitCredentialFill \/ GitCredentialApprove \/ DelegateRaises)
    /\ WF_vars(WriteResponse)
    /\ WF_vars(Except)

\* ------------------------------------------------------------ codec alone
\* read_kv on a stream, then write_close_kv of the mapping read
CodecLines ==
    (SeqsUpTo({"k", "j", EQ, BAD}, 2) \ {<<>>})
      \cup { <<"k", EQ, "j", EQ>>, <<"j", EQ, EQ, "k">>, <<"k", EQ, CR>> }

CodecBlocks == {WithNL(ls) : ls \in SeqsUpTo(CodecLines, MaxCodecLines)}

\* a block, then a blank line, or a blank line and more, or end of stream,
\* or end of stream in the middle of the last line
CodecStreams ==
    {b \o <<NL>> : b \in CodecBlocks}
      \cup {b \o <<NL, "k", EQ, NL>> : b \in CodecBlocks}
      \cup CodecBlocks
      \cup {SubSeq(b, 1, Len(b) - 1) : b \in CodecBlocks \ {<<>>}}

ServerIdle ==
    /\ nconn = 0 /\ backlog = <<>> /\ acceptLog = <<>> /\ closeLog = <<>>
    /\ conn = 0 /\ peer = "?" /\ op = <<>> /\ exc = "none" /\ broken = FALSE

serverVars == <<nconn, backlog, acceptLog, closeLog, conn, peer, op, exc, broken>>

CodecInit ==
    /\ ServerIdle
    /\ pc = "codec"
    /\ sent \in CodecStreams
    /\ inbuf = sent
    /\ decoded = <<>> /\ nread = 0 /\ req = <<>> /\ gate = <<>> /\ calls = <<>>
    /\ resp = <<>> /\ writes = <<>> /\ wire = <<>>

\* kv = read_kv(stream)
CodecDecode ==
    /\ pc = "codec"
    /\ LET r == read_kv(inbuf)
       IN  decoded' = r.kv /\ inbuf' = r.rest
    /\ nread' = nread + 1
    /\ pc' = "decoded"
    /\ UNCHANGED <<serverVars, sent, req, gate, calls, resp, writes, wire>>

\* write_close_kv(stream, kv)
CodecEncode ==
    /\ pc = "decoded"
    /\ wire' = wire \o Flatten(write_close_kv(decoded))
    /\ writes' = Append(writes, decoded)
    /\ pc' = "encoded"
    /\ UNCHANGED <<serverVars, sent, inbuf, decoded, nread, req, gate, calls, resp>>

CodecNext ==
    \/ CodecDecode
    \/ CodecEncode

CodecSpec == CodecInit /\ [][CodecNext]_vars

\* -------------------------------------------------------- trust gate alone
\* confirm_get on every answer of up to MaxAnsLen characters
GateChars == {"y", "Y", "e", "E", "s", "S", " ", "n"}

GateAnswers == SeqsUpTo(GateChars, MaxAnsLen)

GateInit ==
    /\ ServerIdle
    /\ pc = "confirm"
    /\ req \in {<<>>, <<<<s_host, <<"x">>>>>>}
    /\ sent = <<>> /\ inbuf = <<>> /\ decoded = <<>> /\ nread = 0
    /\ gate = <<>> /\ calls = <<>> /\ resp = <<>> /\ writes = <<>> /\ wire = <<>>

\* ans = input(...); return ans.strip().lower() in {'y', 'yes'}
GateAnswer ==
    /\ pc = "confirm"
    /\ \E ans \in GateAnswers :
          gate' = Append(gate, [req |-> req, peer |-> peer, ans |-> ans,
                                result |-> IF confirm_get(ans) THEN "approve"
                                           ELSE "deny"])
    /\ pc' = "answered"
    /\ UNCHANGED <<serverVars, sent, inbuf, decoded, nread, req, calls, resp,
                   writes, wire>>

GateNext == GateAnswer

GateSpec == GateInit /\ [][GateNext]_vars

\* --------------------------------------------------------- responses alone
\* every Response main can build, from every op value a peer can have sent and
\* every output the fill command can have given, and its write
RespChars == {"k", EQ, NL, CR, BAD}

RespBytes == SeqsUpTo(RespChars, MaxRespLen)

\* the op values read_kv gives for the lines op=<bytes>
RespOps == {pop_op(read_kv(s_op \o <<EQ>> \o v \o <<NL>>).kv) : v \in RespBytes}

RespInit ==
    /\ ServerIdle
    /\ pc = "respond"
    /\ sent = <<>> /\ inbuf = <<>> /\ decoded = <<>> /\ nread = 0 /\ req = <<>>
    /\ gate = <<>> /\ calls = <<>> /\ resp = <<>> /\ writes = <<>> /\ wire = <<>>

\* {'error': 'erase disabled'}, {'error': 'user denied'}, {} after store,
\* {'error': 'internal server error'}
RespFixed ==
    /\ pc = "respond"
    /\ resp' \in {ErrorResponse(s_erase_disabled), ErrorResponse(s_user_denied),
                  <<>>, ErrorResponse(s_internal_server_error)}
    /\ pc' = "write"
    /\ UNCHANGED <<serverVars, sent, inbuf, decoded, nread, req, gate, calls,
                   writes, wire>>

\* {'error': f'unknown op: {op}'}
RespUnknownOp ==
    /\ pc = "respond"
    /\ \E o \in RespOps :
          /\ dispatch(o) = "unknown"
          /\ resp' = ErrorResponse(s_unknown_op \o o)
    /\ pc' = "write"
    /\ UNCHANGED <<serverVars, sent, inbuf, decoded, nread, req, gate, calls,
                   writes, wire>>

\* git_credential_fill(req)
RespFill ==
    /\ pc = "respond"
    /\ \E out \in RespBytes :
          /\ calls' = Append(calls, [cmd |-> "fill", req |-> req,
                                     input |-> delegate_input(req),
                                     stdout |-> out, returncode |-> 0,
                                     ret |-> git_credential_fill(out)])
          /\ resp' = git_credential_fill(out)
    /\ pc' = "write"
    /\ UNCHANGED <<serverVars, sent, inbuf, decoded, nread, req, gate, writes,
                   wire>>

\* write_close_kv(f, resp)
RespWrite ==
    /\ pc = "write"
    /\ writes' = Append(writes, resp)
    /\ wire' = wire \o Flatten(write_close_kv(resp))
    /\ pc' = "written"
    /\ UNCHANGED <<serverVars, sent, inbuf, decoded, nread, req, gate, calls,
                   resp>>

RespNext ==
    \/ RespFixed
    \/ RespUnknownOp
    \/ RespFill
    \/ RespWrite

RespSpec == RespInit /\ [][RespNext]_vars

\* ------------------------------------------------------------- properties
\* the wire block of a mapping: one key=value line per pair, then a blank line
RECURSIVE BlockOf(_)
BlockOf(m) ==
    IF m = <<>> THEN <<NL>>
    ELSE encode(m[1][1]) \o <<EQ>> \o encode(m[1][2]) \o <<NL>> \o BlockOf(Tail(m))

IsPrefix(a, b) == Len(a) <= Len(b) /\ a = SubSeq(b, 1, Len(a))

\* the newline-terminated lines of b (newlines dropped), and what follows them
RECURSIVE LinesOf(_)
LinesOf(b) ==
    LET i == Index(b, NL)
    IN  IF i = 0 THEN <<>>
        ELSE <<SubSeq(b, 1, i - 1)>> \o LinesOf(SubSeq(b, i + 1, Len(b)))

\* b is key=value lines followed by one blank line and nothing else
IsCompleteBlock(b) ==
    LET ls == LinesOf(b)
    IN  /\ b # <<>> /\ b[Len(b)] = NL
        /\ ls[Len(ls)] = <<>>
        /\ \A i \in 1..(Len(ls) - 1) : Index(ls[i], EQ) > 1

\* conn has been accepted, served to the end and closed, the server running on
Served == conn # 0 /\ Closed(conn) /\ pc = "accept"

\* the try body's Response was m: it is what was handed to the writer, what
\* reached the peer is the start of its block, and all of it once conn is served
ResponseIs(m) ==
    /\ pc = "write" => resp = m
    /\ writes # <<>> => writes[1] = m
    /\ IsPrefix(wire, BlockOf(m))
    /\ Served => wire = BlockOf(m)

DelegateCalled(cmd) == \E i \in 1..Len(calls) : calls[i].cmd = cmd
GateResult(r) == \E i \in 1..Len(gate) : gate[i].result = r

UserDenied == << <<s_error, s_user_denied>> >>
EraseDisabled == << <<s_error, s_erase_disabled>> >>
UnknownOp(v) == << <<s_error, s_unknown_op \o v>> >>
InternalServerError == << <<s_error, s_internal_server_error>> >>

\* C1: on a get connection where the trust gate returned denial, the Response
\* is exactly {error: "user denied"} and the fill delegate is not invoked
C1_DeniedGet ==
    (nread = 1 /\ op = s_get /\ GateResult("deny")) =>
        /\ ResponseIs(UserDenied)
        /\ ~DelegateCalled("fill")

C1_Witness ==
    /\ Served /\ op = s_get /\ GateResult("deny")
    /\ wire = BlockOf(UserDenied) /\ calls = <<>>

\* C2: on an erase connection, whatever else the Request carries and whatever
\* connections came before, the Response is exactly {error: "erase disabled"}
\* and neither a delegate nor the trust gate is invoked
C2_EraseDisabled ==
    (nread = 1 /\ op = s_erase) =>
        /\ ResponseIs(EraseDisabled)
        /\ calls = <<>>
        /\ gate = <<>>

C2_Witness ==
    /\ Served /\ op = s_erase /\ req # <<>> /\ Len(closeLog) >= 2
    /\ wire = BlockOf(EraseDisabled)

\* C3: on a get connection that the trust gate approved, the Response equals
\* the mapping the fill delegate returned, the empty mapping included,
\* whatever the command's exit status
C3_ApprovedGet ==
    (nread = 1 /\ op = s_get /\ GateResult("approve")) =>
        \A i \in 1..Len(calls) :
            calls[i].returncode >= 0 =>
                calls[i].cmd = "fill" /\ ResponseIs(calls[i].ret)

C3_Witness ==
    /\ Served /\ op = s_get /\ GateResult("approve")
    /\ Len(calls) = 1 /\ calls[1].returncode = 128 /\ calls[1].ret = <<>>
    /\ wire = <<NL>>

\* the pairs of m whose key is not op
MinusOp(m) == SelectSeq(m, LAMBDA kvp : kvp[1] # s_op)

\* C4: on a store connection the approve delegate is invoked exactly once,
\* with the decoded Request minus op, the trust gate is not consulted, and
\* the Response is the empty mapping whatever the command printed or returned
C4_Store ==
    (nread = 1 /\ op = s_store) =>
        /\ gate = <<>>
        /\ Len(calls) = (IF pc = "approve" THEN 0 ELSE 1)
        /\ \A i \in 1..Len(calls) :
              /\ calls[i].cmd = "approve"
              /\ calls[i].req = MinusOp(decoded)
              /\ calls[i].returncode >= 0 => ResponseIs(<<>>)

C4_Witness ==
    /\ Served /\ op = s_store /\ Len(calls) = 1
    /\ calls[1].req # <<>> /\ calls[1].returncode = 128
    /\ Len(decoded) = Len(calls[1].req) + 1
    /\ wire = <<NL>>

\* C5 as claimed: every connection that has been closed had a complete
\* Response block written to it first, on every path
C5_ResponseBeforeClose ==
    (conn # 0 /\ Closed(conn)) => IsCompleteBlock(wire)

\* C5: every connection that has been closed, and on which no write raised,
\* had a complete Response block written to it first, on every dispatch path
\* and when a call raised while it was served
C5_ResponseBeforeCloseUnlessBroken ==
    (conn # 0 /\ Closed(conn) /\ ~broken) => IsCompleteBlock(wire)

C5_Witness ==
    /\ conn # 0 /\ Closed(conn) /\ ~broken
    /\ exc = "git_credential_fill"
    /\ IsCompleteBlock(wire)

\* C6: after a failure while serving a connection the serve loop goes on to
\* accept the next connection: the server is never terminated by it
C6_ServerSurvives ==
    (conn # 0 /\ exc # "none" /\ Closed(conn)) => pc = "accept"

RaisedBeforeWrite ==
    exc \in {"get_peer_info", "confirm_get", "git_credential_fill",
             "git_credential_approve"}

\* C7: when a call raises before the Response is written, the peer receives
\* exactly {error: "internal server error"} and the server goes on accepting
C7_InternalServerError ==
    (conn # 0 /\ RaisedBeforeWrite /\ Closed(conn)) =>
        /\ wire = BlockOf(InternalServerError)
        /\ pc = "accept"

\* C8: for every op other than get, store and erase, the empty string and
\* GET included, the Response is exactly {error: "unknown op: <op>"} and
\* neither the trust gate nor a delegate is invoked
C8_UnknownOp ==
    (nread = 1 /\ op \notin {s_get, s_store, s_erase}) =>
        /\ ResponseIs(UnknownOp(op))
        /\ gate = <<>>
        /\ calls = <<>>

C8_Witness ==
    /\ Served /\ nread = 1 /\ op = s_GET
    /\ wire = encode(s_error \o <<EQ>> \o s_unknown_op \o s_GET \o <<NL, NL>>)

\* p ends with a blank line
EndsBlank(p) ==
    \/ p = <<NL>>
    \/ Len(p) >= 2 /\ p[Len(p)] = NL /\ p[Len(p) - 1] = NL

\* the length of the first wire block of s: through its first blank line,
\* all of s when it has none
FirstBlockLen(s) ==
    LET ends == {k \in 1..Len(s) : EndsBlank(SubSeq(s, 1, k))}
    IN  IF ends = {} THEN Len(s)
        ELSE CHOOSE k \in ends : \A j \in ends : k <= j

\* C9: one Request per connection: one wire block decoded, at most one
\* prompt and one delegate invocation, and the bytes after the first blank
\* line are left unread
C9_OneRequest ==
    /\ nread <= 1
    /\ Len(gate) <= 1
    /\ Len(calls) <= 1
    /\ nread = 1 =>
          /\ inbuf = SubSeq(sent, FirstBlockLen(sent) + 1, Len(sent))
          /\ decoded = read_kv_loop(SubSeq(sent, 1, FirstBlockLen(sent)), <<>>).kv

C9_Witness ==
    /\ Served /\ nread = 1 /\ inbuf # <<>>
    /\ Len(gate) = 1 /\ Len(calls) = 1

Accepted(c) == \E i \in 1..Len(acceptLog) : acceptLog[i] = c

\* connections are accepted in the order they were made, closed in the order
\* they were accepted, and at most one is open at the server
C10_Sequential ==
    /\ acceptLog = [i \in 1..Len(acceptLog) |-> i]
    /\ IsPrefix(closeLog, acceptLog)
    /\ Cardinality({c \in 1..nconn : Accepted(c) /\ ~Closed(c)}) <= 1

\* a connection is accepted only when the one before it has a complete
\* Response written and is closed
C10_AcceptAfterClose ==
    (acceptLog' # acceptLog) =>
        /\ \A c \in 1..nconn : Accepted(c) => Closed(c)
        /\ conn # 0 => IsCompleteBlock(wire)

\* while the prompt is pending nothing is accepted, answered or closed
C10_PromptBlocks ==
    (pc = "confirm" /\ pc' = "confirm") =>
        /\ acceptLog' = acceptLog
        /\ closeLog' = closeLog
        /\ wire' = wire

\* C10: connections are served strictly sequentially in acceptance order, the
\* next one accepted only after the previous one has its Response written and
\* is closed, and nothing is accepted or answered while a prompt is pending
C10_StrictlySequential ==
    /\ []C10_Sequential
    /\ [][C10_AcceptAfterClose]_vars
    /\ [][C10_PromptBlocks]_vars

C10_Witness ==
    /\ pc = "confirm" /\ conn = 2 /\ Closed(1) /\ backlog # <<>>

\* the Response the request, the operator's answer and the command's output
\* call for, whatever the peer lookup gave
ResponseFor ==
    IF op = s_erase THEN EraseDisabled
    ELSE IF op = s_store THEN <<>>
    ELSE IF op # s_get THEN UnknownOp(op)
    ELSE IF GateResult("deny") THEN UserDenied
    ELSE IF calls # <<>> THEN calls[1].ret
    ELSE <<>>

\* C11: peer resolution never fails the request: whatever the PID lookup and
\* the process-name lookup give, no exception of theirs reaches the request,
\* and the Response is the one the request, the answer and the output call for
C11_PeerDisplayOnly ==
    /\ exc # "get_peer_info"
    /\ (writes # <<>> /\ exc \in {"none", "write_close_kv"}) => writes[1] = ResponseFor

\* C14: every fill invocation follows an approval given on the same
\* connection for the same Request, and is made on the get path only
C14_FillNeedsApproval ==
    \A i \in 1..Len(calls) :
        calls[i].cmd = "fill" =>
            /\ op = s_get
            /\ Len(gate) = 1
            /\ gate[1].result = "approve"
            /\ gate[1].req = calls[i].req
            /\ exc \notin {"get_peer_info", "confirm_get", "git_credential_approve"}

C14_Witness ==
    /\ conn = 2 /\ Served /\ GateResult("approve") /\ DelegateCalled("fill")
    /\ calls[1].req # <<>>

NoOpKey(m) == \A i \in 1..Len(m) : m[i][1] # s_op

\* C15: a Request without an op key, the empty Request of a stream closed at
\* once included, is dispatched as get: the gate is consulted and fill is
\* invoked only on approval; no mapping handed to the gate or to a delegate
\* has the key op
C15_DefaultGet ==
    /\ (nread = 1 /\ NoOpKey(decoded)) =>
          /\ op = s_get
          /\ pc = "confirm" \/ Len(gate) = 1
          /\ DelegateCalled("fill") => GateResult("approve")
          /\ ~DelegateCalled("approve")
    /\ \A i \in 1..Len(gate) : NoOpKey(gate[i].req)
    /\ \A i \in 1..Len(calls) : NoOpKey(calls[i].req)

C15_Witness ==
    /\ Served /\ nread = 1 /\ sent = <<>> /\ decoded = <<>>
    /\ GateResult("approve") /\ DelegateCalled("fill")

\* C16: what the fill command and the approve command are given as input is
\* the wire block of the Request as the encoder writes it, the empty Request
\* included
C16_DelegateInputIsWireBlock ==
    \A i \in 1..Len(calls) : calls[i].input = BlockOf(calls[i].req)

\* C18: at most one Response block is written on a connection: nothing follows
\* the blank terminator, and what is written is the start of the first
\* Response handed to the writer, also when a write of it raised
C18_OneResponseBlock ==
    /\ \A i \in 1..Len(wire) : EndsBlank(SubSeq(wire, 1, i)) => i = Len(wire)
    /\ writes # <<>> => IsPrefix(wire, BlockOf(writes[1]))

C18_Witness ==
    /\ Len(writes) = 2 /\ broken /\ pc = "terminated"
    /\ wire # <<>> /\ writes[2] = InternalServerError

HasBlankLine(b) == \E k \in 1..Len(b) : EndsBlank(SubSeq(b, 1, k))

\* the text before the first = of a line
RawKey(l) == SubSeq(l, 1, Index(l, EQ) - 1)

\* b is a block of key=value lines with unique keys ended by a blank line
IsKVBlock(b) ==
    LET ls == LinesOf(b)
    IN  /\ b # <<>> /\ b[Len(b)] = NL
        /\ ls[Len(ls)] = <<>>
        /\ \A i \in 1..(Len(ls) - 1) : Index(ls[i], EQ) > 0
        /\ \A i, j \in 1..(Len(ls) - 1) : i # j => RawKey(ls[i]) # RawKey(ls[j])

LineSet(b) == {LinesOf(b)[i] : i \in 1..Len(LinesOf(b))}

ValidUtf8(b) == \A i \in 1..Len(b) : b[i] # BAD

\* C12 as claimed: for every block of key=value lines with unique keys ended
\* by a blank line, decoding and encoding gives a block with the same keys and
\* every value preserved exactly
C12_RoundTrip ==
    (pc = "encoded" /\ IsKVBlock(sent)) =>
        IsKVBlock(wire) /\ LineSet(wire) = LineSet(sent)

\* C12: for every block of validly encoded (UTF-8) key=value lines with unique
\* keys ended by a blank line, decoding and encoding gives a block with the
\* same keys and every value preserved exactly, values with = in them included
C12_RoundTripValidUtf8 ==
    (pc = "encoded" /\ IsKVBlock(sent) /\ ValidUtf8(sent)) =>
        IsKVBlock(wire) /\ LineSet(wire) = LineSet(sent)

C12_Witness ==
    /\ pc = "encoded" /\ IsKVBlock(sent) /\ ValidUtf8(sent)
    /\ Len(decoded) = 2 /\ decoded[1][2] = <<EQ, "k">> /\ decoded[2][2] = <<CR>>
    /\ wire = sent

\* the mapping of a sequence of lines
RECURSIVE MapOfLines(_, _)
MapOfLines(ls, kv) ==
    IF ls = <<>> THEN kv
    ELSE LET p == partition(decode(Head(ls)))
         IN  MapOfLines(Tail(ls), DictSet(kv, p[1], p[2]))

\* C13 as claimed: a stream that ends without a blank line decodes to the
\* mapping of its complete (newline-terminated) lines, and a stream closed at
\* once to the empty mapping
C13_DecodeAtEof ==
    (pc = "decoded" /\ ~HasBlankLine(sent)) =>
        decoded = MapOfLines(LinesOf(sent), <<>>)

\* a is y or yes in any letter case between any whitespace
IsYes(a) ==
    \E i, j \in 0..Len(a) :
        /\ i + j <= Len(a)
        /\ \A k \in 1..i : a[k] \in Whitespace
        /\ \A k \in (Len(a) - j + 1)..Len(a) : a[k] \in Whitespace
        /\ LET core == SubSeq(a, i + 1, Len(a) - j)
           IN  \/ core \in {<<"y">>, <<"Y">>}
               \/ /\ Len(core) = 3
                  /\ core[1] \in {"y", "Y"} /\ core[2] \in {"e", "E"}
                  /\ core[3] \in {"s", "S"}

\* C17: the trust gate approves exactly when the answer, whitespace around it
\* trimmed and letter case ignored, is y or yes; every other answer, the empty
\* one included, is a denial
C17_ApprovesExactlyYes ==
    \A i \in 1..Len(gate) :
        /\ gate[i].result \in {"approve", "deny"}
        /\ gate[i].result = "approve" <=> IsYes(gate[i].ans)
        /\ gate[i].ans = <<>> => gate[i].result = "deny"

C17_Witness ==
    /\ pc = "answered" /\ Len(gate) = 1
    /\ gate[1].ans = <<" ", "Y", "e", "S">> /\ gate[1].result = "approve"

\* C19: every Response written decodes with read_kv back to exactly the
\* mapping built, with nothing left over: no key of it is empty or holds = or
\* a newline, no value holds a newline, and the block has no blank line
\* before its terminator
C19_ResponseDecodesBack ==
    pc = "written" =>
        /\ read_kv(wire) = [kv |-> writes[1], rest |-> <<>>]
        /\ \A i \in 1..Len(writes[1]) :
              /\ writes[1][i][1] # <<>>
              /\ \A k \in 1..Len(writes[1][i][1]) : writes[1][i][1][k] \notin {EQ, NL}
              /\ \A k \in 1..Len(writes[1][i][2]) : writes[1][i][2][k] # NL
        /\ \A n \in 1..Len(wire) : EndsBlank(SubSeq(wire, 1, n)) => n = Len(wire)

C19_Witness ==
    /\ pc = "written" /\ Len(calls) = 1
    /\ calls[1].stdout = <<EQ, NL, "k", EQ, BAD>>
    /\ writes = << << <<<<"k">>, <<REPL>>>> >> >>

\* c waits in the backlog or is open at the server
Pending(c) ==
    \/ \E i \in 1..Len(backlog) : backlog[i] = c
    \/ conn = c /\ ~Closed(c)

\* C20: every connection waiting in the backlog or accepted has in the end a
\* whole Response block written to it and is closed, with the server back in
\* accept
C20_EveryConnectionServed ==
    \A c \in 1..MaxConns :
        Pending(c) ~> (conn = c /\ Closed(c) /\ pc = "accept" /\ EndsBlank(wire))

====
